---- MODULE Spec2Model ----
(***************************************************************************)
(* Model of analysis/analyze.py, the report generator of the zigttp        *)
(* benchmark suite: load_results, compute_percentiles, mann_whitney_test,  *)
(* generate_report and main.                                               *)
(*                                                                         *)
(* Text (file names, JSON strings, report lines) is a sequence of          *)
(* one-character strings, so that prefix tests, replacement, ordering and  *)
(* cell counting are computed on the characters.  A JSON object is a       *)
(* function from its field names to its values; a Python dict whose        *)
(* iteration order matters is a sequence of <<key, value>> pairs in        *)
(* insertion order.  Numbers in the input files are naturals; a quotient   *)
(* is an exact reduced fraction [num, den].                                *)
(***************************************************************************)
EXTENDS Integers, Sequences, FiniteSets, TLC

\* ------------------------------------------------------------------ bounds
\* Largest number of entries of a curated results directory.
MaxFiles == 2
\* Number of times main is invoked on the same directory.
MaxRuns == 2
\* Longest sample handed to compute_percentiles.
MaxLen == 4
\* Largest observation of a compute_percentiles sample.
MaxVal == 4
\* Longest sample handed to mann_whitney_test.
MaxLenMW == 3
\* Largest observation of a mann_whitney_test sample.
MaxValMW == 1

\* -------------------------------------------------------------------- text
\* The printable ASCII characters in code-point order, from 32 (space); the
\* grave accent (96) is held by a placeholder, as no text of the model uses it.
Ascii ==
  << " ", "!", "\"", "#", "$", "%", "&", "'", "(", ")", "*", "+", ",", "-",
     ".", "/", "0", "1", "2", "3", "4", "5", "6", "7", "8", "9", ":", ";",
     "<", "=", ">", "?", "@", "A", "B", "C", "D", "E", "F", "G", "H", "I",
     "J", "K", "L", "M", "N", "O", "P", "Q", "R", "S", "T", "U", "V", "W",
     "X", "Y", "Z", "[", "\\", "]", "^", "_", "grave", "a", "b", "c", "d", "e",
     "f", "g", "h", "i", "j", "k", "l", "m", "n", "o", "p", "q", "r", "s",
     "t", "u", "v", "w", "x", "y", "z", "{", "|", "}", "~" >>

\* ord(c), counted from the space character.
Ord(c) == CHOOSE i \in 1..Len(Ascii) : Ascii[i] = c

\* Python's s < t on str: code-point lexicographic, a proper prefix first.
RECURSIVE StrLess(_, _)
StrLess(s, t) ==
  IF t = <<>> THEN FALSE
  ELSE IF s = <<>> THEN TRUE
  ELSE IF Head(s) = Head(t) THEN StrLess(Tail(s), Tail(t))
  ELSE Ord(Head(s)) < Ord(Head(t))

\* str.startswith(prefix)
StartsWith(s, prefix) ==
  /\ Len(prefix) <= Len(s)
  /\ SubSeq(s, 1, Len(prefix)) = prefix

\* str.endswith(suffix)
EndsWith(s, suffix) ==
  /\ Len(suffix) <= Len(s)
  /\ SubSeq(s, Len(s) - Len(suffix) + 1, Len(s)) = suffix

\* str.replace(old, new) for one-character old and new.
Replace(s, old, new) == [i \in 1..Len(s) |-> IF s[i] = old THEN new ELSE s[i]]

\* sorted(S) for a finite set of strings.
RECURSIVE SortedStrs(_)
SortedStrs(S) ==
  IF S = {} THEN <<>>
  ELSE LET m == CHOOSE x \in S : \A y \in S \ {x} : StrLess(x, y)
       IN  <<m>> \o SortedStrs(S \ {m})

\* Concatenation of a sequence of strings.
RECURSIVE Concat(_)
Concat(ss) == IF ss = <<>> THEN <<>> ELSE Head(ss) \o Concat(Tail(ss))

\* sep.join(ss)
RECURSIVE Join(_, _)
Join(sep, ss) ==
  IF ss = <<>> THEN <<>>
  ELSE IF Len(ss) = 1 THEN ss[1]
  ELSE ss[1] \o sep \o Join(sep, Tail(ss))

\* ----------------------------------------------------------- number format
Digit(d) == Ascii[Ord("0") + d]

\* str(n) for a natural number.
RECURSIVE Str(_)
Str(n) == IF n < 10 THEN <<Digit(n)>> ELSE Str(n \div 10) \o <<Digit(n % 10)>>

\* Three digits, zero padded: a thousands group.
Group3(n) == <<Digit(n \div 100), Digit((n \div 10) % 10), Digit(n % 10)>>

\* format(n, ",") for a natural number: thousands separators.
RECURSIVE FmtComma(_)
FmtComma(n) ==
  IF n < 1000 THEN Str(n)
  ELSE FmtComma(n \div 1000) \o <<",">> \o Group3(n % 1000)

\* format(n, ",.0f") for a natural number.
FmtComma0f(n) == FmtComma(n)

\* format(n, ",.2f") for a natural number.
FmtComma2f(n) == FmtComma(n) \o <<".","0","0">>

\* format(n, ".4f") for a natural number.
Fmt4f(n) == Str(n) \o <<".","0","0","0","0">>

\* Zero-padded two-digit field of strftime.
Pad2(n) == <<Digit(n \div 10), Digit(n % 10)>>

\* datetime.strftime('%Y-%m-%d %H:%M:%S')
Strftime(t) ==
  Str(t.year) \o <<"-">> \o Pad2(t.month) \o <<"-">> \o Pad2(t.day) \o <<" ">> \o
  Pad2(t.hour) \o <<":">> \o Pad2(t.minute) \o <<":">> \o Pad2(t.second)

\* -------------------------------------------------------------------- JSON
\* dict.get(key, default) on a JSON object.
Get(obj, key, default) == IF key \in DOMAIN obj THEN obj[key] ELSE default

\* The empty dict.
EmptyObj == <<>>

\* The text of a file: ok says whether it is a JSON document, value is the
\* object it denotes.
JsonText(obj) == [ok |-> TRUE, value |-> obj]
Malformed == [ok |-> FALSE, value |-> EmptyObj]

\* A parser that swallows the error of a malformed document and goes on
\* with an empty object: the skip-and-continue behaviour the program lacks.
JsonLoadsLenient(text) == [raised |-> FALSE, value |-> text.value]

\* json.loads(text): the parsed object, or raised.
JsonLoads(text) ==
  IF text.ok THEN [raised |-> FALSE, value |-> text.value]
  ELSE [raised |-> TRUE, value |-> EmptyObj]

\* Restriction of an object to some of its fields.
Restrict(obj, keys) == [k \in DOMAIN obj \cap keys |-> obj[k]]

\* ------------------------------------------------------------- load_results
\* results_dir.glob("*.json") yields the entries whose name ends in ".json".
GlobMatches(name) == EndsWith(name, <<".","j","s","o","n">>)

\* A chain whose last branch takes every other .json file for the versions
\* file instead of skipping it.
ClassifyAnyJson(name) ==
  IF name = <<"v","e","r","s","i","o","n","s",".","j","s","o","n">> THEN "versions"
  ELSE IF name = <<"s","y","s","t","e","m","_","i","n","f","o",".","j","s","o","n">> THEN "system"
  ELSE IF StartsWith(name, <<"h","t","t","p","_">>) THEN "http"
  ELSE IF StartsWith(name, <<"m","i","c","r","o","b","e","n","c","h","_">>) THEN "microbench"
  ELSE IF StartsWith(name, <<"c","o","l","d","s","t","a","r","t","_">>) THEN "coldstart"
  ELSE IF StartsWith(name, <<"m","e","m","o","r","y","_">>) THEN "memory"
  ELSE "versions"

\* The branch of the if/elif chain of load_results taken for a file name.
Classify(name) ==
  IF name = <<"v","e","r","s","i","o","n","s",".","j","s","o","n">> THEN "versions"
  ELSE IF name = <<"s","y","s","t","e","m","_","i","n","f","o",".","j","s","o","n">> THEN "system"
  ELSE IF StartsWith(name, <<"h","t","t","p","_">>) THEN "http"
  ELSE IF StartsWith(name, <<"m","i","c","r","o","b","e","n","c","h","_">>) THEN "microbench"
  ELSE IF StartsWith(name, <<"c","o","l","d","s","t","a","r","t","_">>) THEN "coldstart"
  ELSE IF StartsWith(name, <<"m","e","m","o","r","y","_">>) THEN "memory"
  ELSE "ignored"

\* The categories held as a dict keyed by a derived identifier.
KeyedCategories == {"http", "microbench", "coldstart", "memory"}

\* f"{data.get('runtime', 'unknown')}_{data.get('endpoint', '').replace('/', '_')}"
HttpKey(data) ==
  Get(data, "runtime", <<"u","n","k","n","o","w","n">>) \o <<"_">> \o
  Replace(Get(data, "endpoint", <<>>), "/", "_")

\* A key whose missing runtime falls back to the empty string.
RuntimeKeyEmptyDefault(data) == Get(data, "runtime", <<>>)

\* data.get("runtime", "unknown")
RuntimeKey(data) == Get(data, "runtime", <<"u","n","k","n","o","w","n">>)

\* The key under which load_results stores a payload of a keyed category.
DerivedKey(category, data) ==
  IF category = "http" THEN HttpKey(data) ELSE RuntimeKey(data)

\* key in d, for an insertion-ordered dict d.
HasKey(d, key) == \E i \in 1..Len(d) : d[i][1] = key

\* d[key], for a key of d.
Lookup(d, key) == d[CHOOSE i \in 1..Len(d) : d[i][1] = key][2]

\* list(d.keys())
Keys(d) == [i \in 1..Len(d) |-> d[i][1]]

\* An assignment that keeps the payload already stored under a known key.
DictSetKeepFirst(d, key, value) ==
  IF HasKey(d, key) THEN d ELSE Append(d, <<key, value>>)

\* d[key] = value: a new key is appended, a known key keeps its position.
DictSet(d, key, value) ==
  IF HasKey(d, key)
  THEN [i \in 1..Len(d) |-> IF d[i][1] = key THEN <<key, value>> ELSE d[i]]
  ELSE Append(d, <<key, value>>)

\* results[category] = payload
Put(res, category, payload) ==
  [c \in DOMAIN res \cup {category} |-> IF c = category THEN payload ELSE res[c]]

\* One iteration of the loop of load_results on file f: the results after it
\* and whether json.loads raised.  A keyed category is created before its
\* file is parsed.
LoadFile(res, f) ==
  LET c == Classify(f.name)
      parsed == JsonLoads(f.text)
  IN  IF c = "ignored" THEN [raised |-> FALSE, results |-> res]
      ELSE IF c \in {"versions", "system"}
      THEN IF parsed.raised THEN [raised |-> TRUE, results |-> res]
           ELSE [raised |-> FALSE, results |-> Put(res, c, parsed.value)]
      ELSE LET created == IF c \in DOMAIN res THEN res ELSE Put(res, c, <<>>)
           IN  IF parsed.raised THEN [raised |-> TRUE, results |-> created]
               ELSE [raised |-> FALSE,
                     results |-> Put(created, c,
                                     DictSet(created[c],
                                             DerivedKey(c, parsed.value),
                                             parsed.value))]

\* ----------------------------------------------------------- generate_report
\* sorted(d.items()) for an insertion-ordered dict: ascending by key.
SortedItems(d) ==
  LET ks == SortedStrs({d[i][1] : i \in 1..Len(d)})
  IN  [i \in 1..Len(ks) |-> <<ks[i], Lookup(d, ks[i])>>]

\* f"{obj.get(key, 'unknown')}" for a numeric field.
NumOrUnknown(obj, key) ==
  IF key \in DOMAIN obj THEN Str(obj[key]) ELSE <<"u","n","k","n","o","w","n">>

\* The title and the timestamp.
HeaderLines(clock) ==
  << <<"#"," ","z","i","g","t","t","p"," ","B","e","n","c","h","m","a","r","k"," ","R","e","s","u","l","t","s">>,
     <<>>,
     <<"*","*","G","e","n","e","r","a","t","e","d",":","*","*"," ">> \o Strftime(clock),
     <<>> >>

\* The sub-list of runtime versions of the system section.
RuntimeVersionLines(runtimes) ==
  IF runtimes = <<>> THEN <<>>
  ELSE << <<"#","#","#"," ","R","u","n","t","i","m","e"," ","V","e","r","s","i","o","n","s">>, <<>> >> \o
       [i \in 1..Len(runtimes) |->
          <<"-"," ","*","*">> \o runtimes[i][1] \o <<":","*","*"," ">> \o runtimes[i][2]] \o
       << <<>> >>

\* A system section that is left out for a system object without fields.
SystemSectionIfNonEmpty(res) ==
  IF "system" \notin DOMAIN res \/ DOMAIN res["system"] = {} THEN <<>>
  ELSE LET sys == res["system"]
       IN  << <<"#","#"," ","S","y","s","t","e","m"," ","I","n","f","o","r","m","a","t","i","o","n">>,
              <<>>,
              <<"-"," ","*","*","O","S",":","*","*"," ">> \o Get(sys, "os", <<"u","n","k","n","o","w","n">>) \o <<" ">> \o
                Get(sys, "os_version", <<>>),
              <<"-"," ","*","*","C","P","U",":","*","*"," ">> \o Get(sys, "cpu_model", <<"u","n","k","n","o","w","n">>),
              <<"-"," ","*","*","C","o","r","e","s",":","*","*"," ">> \o NumOrUnknown(sys, "cpu_cores"),
              <<"-"," ","*","*","R","A","M",":","*","*"," ">> \o NumOrUnknown(sys, "ram_gb") \o <<" ","G","B">>,
              <<>> >> \o
           RuntimeVersionLines(Get(sys, "runtimes", <<>>))

\* The system section: rendered whenever the category is present.
SystemSection(res) ==
  IF "system" \notin DOMAIN res THEN <<>>
  ELSE LET sys == res["system"]
       IN  << <<"#","#"," ","S","y","s","t","e","m"," ","I","n","f","o","r","m","a","t","i","o","n">>,
              <<>>,
              <<"-"," ","*","*","O","S",":","*","*"," ">> \o Get(sys, "os", <<"u","n","k","n","o","w","n">>) \o <<" ">> \o
                Get(sys, "os_version", <<>>),
              <<"-"," ","*","*","C","P","U",":","*","*"," ">> \o Get(sys, "cpu_model", <<"u","n","k","n","o","w","n">>),
              <<"-"," ","*","*","C","o","r","e","s",":","*","*"," ">> \o NumOrUnknown(sys, "cpu_cores"),
              <<"-"," ","*","*","R","A","M",":","*","*"," ">> \o NumOrUnknown(sys, "ram_gb") \o <<" ","G","B">>,
              <<>> >> \o
           RuntimeVersionLines(Get(sys, "runtimes", <<>>))

HttpRow(data) ==
  LET runtime == Get(data, "runtime", <<"u","n","k","n","o","w","n">>)
      endpoint == Get(data, "endpoint", <<"u","n","k","n","o","w","n">>)
      metrics == Get(data, "metrics", EmptyObj)
      rps == Get(metrics, "requests_per_second", 0)
      p99 == Get(metrics, "latency_p99_secs", 0)
  IN  <<"|"," ">> \o runtime \o <<" ","|"," ">> \o endpoint \o <<" ","|"," ">> \o FmtComma0f(rps) \o
      <<" ","|"," ">> \o Fmt4f(p99) \o <<"s"," ","|">>

HttpSection(res) ==
  IF "http" \notin DOMAIN res THEN <<>>
  ELSE LET items == SortedItems(res["http"])
       IN  << <<"#","#"," ","H","T","T","P"," ","B","e","n","c","h","m","a","r","k"," ","R","e","s","u","l","t","s">>,
              <<>>,
              <<"|"," ","R","u","n","t","i","m","e"," ","|"," ","E","n","d","p","o","i","n","t"," ","|"," ","R","P","S"," ","|"," ","p","9","9"," ","L","a","t","e","n","c","y"," ","|">>,
              <<"|","-","-","-","-","-","-","-","-","-","|","-","-","-","-","-","-","-","-","-","-","|","-","-","-","-","-","|","-","-","-","-","-","-","-","-","-","-","-","-","-","|">> >> \o
           [i \in 1..Len(items) |-> HttpRow(items[i][2])] \o
           << <<>> >>

\* The union of the benchmark names of all runtimes.
BenchNames(mb) ==
  UNION {DOMAIN Get(mb[i][2], "benchmarks", EmptyObj) : i \in 1..Len(mb)}

\* "| Benchmark |" + "|".join(f" {rt} |" for rt in runtimes)
MicrobenchHeader(runtimes) ==
  <<"|"," ","B","e","n","c","h","m","a","r","k"," ","|">> \o
  Join(<<"|">>, [i \in 1..Len(runtimes) |-> <<" ">> \o runtimes[i] \o <<" ","|">>])

\* "|" + "|".join(["---"] * (len(runtimes) + 1)) + "|"
MicrobenchRule(runtimes) ==
  <<"|">> \o Join(<<"|">>, [i \in 1..(Len(runtimes) + 1) |-> <<"-","-","-">>]) \o <<"|">>

\* The cell of one runtime in the row of one benchmark.
MicrobenchCell(mb, rt, bench) ==
  LET benchmarks == Get(Lookup(mb, rt), "benchmarks", EmptyObj)
  IN  IF bench \in DOMAIN benchmarks
      THEN <<" ">> \o FmtComma2f(Get(benchmarks[bench], "ops_per_sec", 0)) \o
           <<" ","o","p","s","/","s"," ","|">>
      ELSE <<" ","-"," ","|">>

MicrobenchRow(mb, runtimes, bench) ==
  <<"|"," ">> \o bench \o <<" ","|">> \o
  Concat([i \in 1..Len(runtimes) |-> MicrobenchCell(mb, runtimes[i], bench)])

MicrobenchTable(mb) ==
  LET bench_names == BenchNames(mb)
      runtimes == Keys(mb)
      benches == SortedStrs(bench_names)
  IN  IF bench_names = {} THEN <<>>
      ELSE << MicrobenchHeader(runtimes), MicrobenchRule(runtimes) >> \o
           [i \in 1..Len(benches) |-> MicrobenchRow(mb, runtimes, benches[i])] \o
           << <<>> >>

MicrobenchSection(res) ==
  IF "microbench" \notin DOMAIN res THEN <<>>
  ELSE << <<"#","#"," ","M","i","c","r","o","b","e","n","c","h","m","a","r","k"," ","R","e","s","u","l","t","s">>, <<>> >> \o
       MicrobenchTable(res["microbench"])

ColdstartRow(runtime, data) ==
  LET metrics == Get(data, "metrics", EmptyObj)
  IN  <<"|"," ">> \o runtime \o
      <<" ","|"," ">> \o FmtComma(Get(metrics, "mean_us", 0)) \o <<"u","s">> \o
      <<" ","|"," ">> \o FmtComma(Get(metrics, "median_us", 0)) \o <<"u","s">> \o
      <<" ","|"," ">> \o FmtComma(Get(metrics, "p95_us", 0)) \o <<"u","s">> \o
      <<" ","|"," ">> \o FmtComma(Get(metrics, "p99_us", 0)) \o <<"u","s"," ","|">>

ColdstartSection(res) ==
  IF "coldstart" \notin DOMAIN res THEN <<>>
  ELSE LET items == SortedItems(res["coldstart"])
       IN  << <<"#","#"," ","C","o","l","d"," ","S","t","a","r","t"," ","R","e","s","u","l","t","s">>,
              <<>>,
              <<"|"," ","R","u","n","t","i","m","e"," ","|"," ","M","e","a","n"," ","|"," ","M","e","d","i","a","n"," ","|"," ","p","9","5"," ","|"," ","p","9","9"," ","|">>,
              <<"|","-","-","-","-","-","-","-","-","-","|","-","-","-","-","-","-","|","-","-","-","-","-","-","-","-","|","-","-","-","-","-","|","-","-","-","-","-","|">> >> \o
           [i \in 1..Len(items) |-> ColdstartRow(items[i][1], items[i][2])] \o
           << <<>> >>

MemoryRow(runtime, data) ==
  LET metrics == Get(data, "metrics", EmptyObj)
  IN  <<"|"," ">> \o runtime \o
      <<" ","|"," ">> \o FmtComma(Get(metrics, "baseline_kb", 0)) \o <<" ","K","B">> \o
      <<" ","|"," ">> \o FmtComma(Get(metrics, "peak_kb", 0)) \o <<" ","K","B">> \o
      <<" ","|"," ">> \o FmtComma(Get(metrics, "avg_kb", 0)) \o <<" ","K","B"," ","|">>

MemorySection(res) ==
  IF "memory" \notin DOMAIN res THEN <<>>
  ELSE LET items == SortedItems(res["memory"])
       IN  << <<"#","#"," ","M","e","m","o","r","y"," ","U","s","a","g","e">>,
              <<>>,
              <<"|"," ","R","u","n","t","i","m","e"," ","|"," ","B","a","s","e","l","i","n","e"," ","|"," ","P","e","a","k"," ","|"," ","A","v","g"," ","|">>,
              <<"|","-","-","-","-","-","-","-","-","-","|","-","-","-","-","-","-","-","-","-","-","|","-","-","-","-","-","-","|","-","-","-","-","-","|">> >> \o
           [i \in 1..Len(items) |-> MemoryRow(items[i][1], items[i][2])] \o
           << <<>> >>

MethodologyLines ==
  << <<"#","#"," ","M","e","t","h","o","d","o","l","o","g","y">>,
     <<>>,
     <<"S","e","e"," ","[","m","e","t","h","o","d","o","l","o","g","y",".","m","d","]","(",".",".","/","m","e","t","h","o","d","o","l","o","g","y",".","m","d",")"," ","f","o","r"," ","d","e","t","a","i","l","e","d"," ","t","e","s","t"," ","m","e","t","h","o","d","o","l","o","g","y",".">>,
     <<>> >>

\* The lines generate_report joins with "\n" and writes to output_path.
ReportLines(res, clock) ==
  HeaderLines(clock) \o SystemSection(res) \o HttpSection(res) \o
  MicrobenchSection(res) \o ColdstartSection(res) \o MemorySection(res) \o
  MethodologyLines

\* ------------------------------------------------------ statistics engine
RECURSIVE Gcd(_, _)
Gcd(a, b) == IF b = 0 THEN a ELSE Gcd(b, a % b)

\* The quotient n / d (d > 0, n >= 0) as a reduced fraction.
Frac(n, d) == LET g == Gcd(n, d) IN [num |-> n \div g, den |-> d \div g]

FracLess(x, y) == x.num * y.den < y.num * x.den

RECURSIVE Sum(_)
Sum(data) == IF data = <<>> THEN 0 ELSE Head(data) + Sum(Tail(data))

RECURSIVE SumSquares(_)
SumSquares(data) ==
  IF data = <<>> THEN 0 ELSE Head(data) * Head(data) + SumSquares(Tail(data))

\* Insertion of x into an ascending sequence.
RECURSIVE Insert(_, _)
Insert(x, sorted) ==
  IF sorted = <<>> THEN <<x>>
  ELSE IF x <= Head(sorted) THEN <<x>> \o sorted
  ELSE <<Head(sorted)>> \o Insert(x, Tail(sorted))

\* sorted(data): a new ascending sequence, data itself is left as it is.
RECURSIVE Sorted(_)
Sorted(data) ==
  IF data = <<>> THEN <<>> ELSE Insert(Head(data), Sorted(Tail(data)))

\* The caller's list after sorted(data) has run: sorted builds a new list.
DataAfterSorted(data) == data

\* np.percentile(arr, q), linear interpolation between the closest ranks.
Percentile(data, q) ==
  LET s == Sorted(data)
      n == Len(s)
      lo == ((n - 1) * q) \div 100
      rem == ((n - 1) * q) % 100
      hi == IF lo + 2 <= n THEN lo + 2 ELSE n
  IN  Frac(100 * s[lo + 1] + rem * (s[hi] - s[lo + 1]), 100)

\* np.std(arr): the population standard deviation, kept as the variance whose
\* square root it is.
Std(data) ==
  LET n == Len(data)
  IN  [sqrt_of |-> Frac(n * SumSquares(data) - Sum(data) * Sum(data), n * n)]

\* The branch of compute_percentiles taken when numpy and scipy are imported.
FullStats(data) ==
  [mean   |-> Frac(Sum(data), Len(data)),
   median |-> Percentile(data, 50),
   std    |-> Std(data),
   p50    |-> Percentile(data, 50),
   p95    |-> Percentile(data, 95),
   p99    |-> Percentile(data, 99),
   min    |-> Frac(Sorted(data)[1], 1),
   max    |-> Frac(Sorted(data)[Len(data)], 1),
   n      |-> Len(data)]

\* A fallback whose median is the lower middle element of an even sample.
FallbackStatsLowerMedian(data) ==
  LET sorted_data == Sorted(data)
      n == Len(sorted_data)
  IN  [mean   |-> Frac(Sum(data), n),
       median |-> sorted_data[((n - 1) \div 2) + 1],
       min    |-> sorted_data[1],
       max    |-> sorted_data[n],
       n      |-> n]

\* The fallback branch of compute_percentiles.
FallbackStats(data) ==
  LET sorted_data == Sorted(data)
      n == Len(sorted_data)
  IN  [mean   |-> Frac(Sum(data), n),
       median |-> sorted_data[(n \div 2) + 1],
       min    |-> sorted_data[1],
       max    |-> sorted_data[n],
       n      |-> n]

compute_percentiles(data, has_scipy) ==
  IF data = <<>> THEN EmptyObj
  ELSE IF has_scipy THEN FullStats(data)
  ELSE FallbackStats(data)

\* An early return taken only when all three conditions hold together.
MannWhitneyUnavailableAnd(a, b, has_scipy) ==
  ~has_scipy /\ Len(a) < 3 /\ Len(b) < 3

\* The early return of mann_whitney_test.
MannWhitneyUnavailable(a, b, has_scipy) ==
  ~has_scipy \/ Len(a) < 3 \/ Len(b) < 3

\* The U statistic of sample a against sample b: the pairs in which a's
\* observation is the larger one, a tie counting one half.
UStatistic(a, b) ==
  LET twice == Sum([k \in 1..(Len(a) * Len(b)) |->
                      LET x == a[((k - 1) \div Len(b)) + 1]
                          y == b[((k - 1) % Len(b)) + 1]
                      IN  IF x > y THEN 2 ELSE IF x = y THEN 1 ELSE 0])
  IN  Frac(twice, 2)

\* The two-sided p-values stats.mannwhitneyu may return: the library's
\* computation is not part of this program, so any of these may come back.
PValues == {Frac(0, 1), Frac(49, 1000), Frac(50, 1000), Frac(1, 1)}

\* The results mann_whitney_test(a, b) may return.
mann_whitney_test(a, b, has_scipy) ==
  IF MannWhitneyUnavailable(a, b, has_scipy) THEN {[available |-> FALSE]}
  ELSE {[available          |-> TRUE,
         statistic          |-> UStatistic(a, b),
         p_value            |-> p,
         significant_at_005 |-> FracLess(p, Frac(5, 100))] : p \in PValues}

\* ------------------------------------------------------------------ inputs
\* A directory entry.
File(name, text) == [name |-> name, text |-> text]

SystemInfo ==
  [os |-> <<"L","i","n","u","x">>, os_version |-> <<"6",".","1">>, cpu_model |-> <<"M","2">>,
   cpu_cores |-> 8, ram_gb |-> 16,
   runtimes |-> << << <<"n","o","d","e">>, <<"2","2">> >>, << <<"b","u","n">>, <<"1",".","1">> >> >>]

HttpGoX ==
  [runtime |-> <<"g","o">>, endpoint |-> <<"/","x">>,
   metrics |-> [requests_per_second |-> 12345, latency_p99_secs |-> 2]]

\* Derives the same key go__x as HttpGoX.
HttpGoUnderscoreX ==
  [runtime |-> <<"g","o">>, endpoint |-> <<"_","x">>,
   metrics |-> [requests_per_second |-> 999, latency_p99_secs |-> 1]]

MicrobenchNode ==
  [runtime |-> <<"n","o","d","e">>,
   benchmarks |-> (<<"f","i","b">> :> [ops_per_sec |-> 1500]) @@
                  (<<"s","o","r","t">> :> [ops_per_sec |-> 20])]

MicrobenchBun ==
  [runtime |-> <<"b","u","n">>,
   benchmarks |-> (<<"f","i","b">> :> [ops_per_sec |-> 1234567])]

ColdstartRust ==
  [runtime |-> <<"r","u","s","t">>,
   metrics |-> [mean_us |-> 100, median_us |-> 90, p95_us |-> 150,
                p99_us |-> 200]]

ColdstartAnon == [metrics |-> [mean_us |-> 1000]]

ColdstartAnonOther == [metrics |-> [mean_us |-> 7]]

MemoryZig ==
  [runtime |-> <<"z","i","g">>,
   metrics |-> [baseline_kb |-> 1024, peak_kb |-> 2048, avg_kb |-> 1500]]

MemoryZigOther ==
  [runtime |-> <<"z","i","g">>,
   metrics |-> [baseline_kb |-> 1, peak_kb |-> 2, avg_kb |-> 3]]

\* The entries a curated results directory is drawn from.
Files ==
  << File(<<"v","e","r","s","i","o","n","s",".","j","s","o","n">>, JsonText([zig |-> <<"0",".","1","3">>])),
     File(<<"s","y","s","t","e","m","_","i","n","f","o",".","j","s","o","n">>, JsonText(SystemInfo)),
     File(<<"h","t","t","p","_","a",".","j","s","o","n">>, JsonText(HttpGoX)),
     File(<<"h","t","t","p","_","b",".","j","s","o","n">>, JsonText(HttpGoUnderscoreX)),
     File(<<"h","t","t","p","_","b","a","d",".","j","s","o","n">>, Malformed),
     File(<<"m","i","c","r","o","b","e","n","c","h","_","a",".","j","s","o","n">>, JsonText(MicrobenchNode)),
     File(<<"m","i","c","r","o","b","e","n","c","h","_","b",".","j","s","o","n">>, JsonText(MicrobenchBun)),
     File(<<"c","o","l","d","s","t","a","r","t","_","a",".","j","s","o","n">>, JsonText(ColdstartRust)),
     File(<<"c","o","l","d","s","t","a","r","t","_","b",".","j","s","o","n">>, JsonText(ColdstartAnon)),
     File(<<"c","o","l","d","s","t","a","r","t","_","c",".","j","s","o","n">>, JsonText(ColdstartAnonOther)),
     File(<<"m","e","m","o","r","y","_","a",".","j","s","o","n">>, JsonText(MemoryZig)),
     File(<<"m","e","m","o","r","y","_","b",".","j","s","o","n">>, JsonText(MemoryZigOther)),
     File(<<"f","o","o",".","j","s","o","n">>, Malformed),
     File(<<"n","o","t","e","s",".","t","x","t">>, Malformed) >>

\* The entries whose optional fields are dropped, one subset at a time.
FieldFiles ==
  << File(<<"s","y","s","t","e","m","_","i","n","f","o",".","j","s","o","n">>, JsonText(SystemInfo)),
     File(<<"h","t","t","p","_","a",".","j","s","o","n">>, JsonText(HttpGoX)),
     File(<<"m","i","c","r","o","b","e","n","c","h","_","a",".","j","s","o","n">>, JsonText(MicrobenchNode)),
     File(<<"c","o","l","d","s","t","a","r","t","_","a",".","j","s","o","n">>, JsonText(ColdstartRust)),
     File(<<"m","e","m","o","r","y","_","a",".","j","s","o","n">>, JsonText(MemoryZig)) >>

\* The fields of the metrics object, or of each entry of the benchmarks object.
SubFields(obj) ==
  IF "metrics" \in DOMAIN obj THEN DOMAIN obj["metrics"]
  ELSE IF "benchmarks" \in DOMAIN obj THEN {"ops_per_sec"}
  ELSE {}

\* obj with only the fields top, its metrics (or each of its benchmarks) with
\* only the fields sub.
Prune(obj, top, sub) ==
  [k \in DOMAIN obj \cap top |->
     IF k = "metrics" THEN Restrict(obj[k], sub)
     ELSE IF k = "benchmarks"
     THEN [b \in DOMAIN obj[k] |-> Restrict(obj[k][b], sub)]
     ELSE obj[k]]

\* The entries numbered by D, in ascending order.
RECURSIVE Entries(_)
Entries(D) ==
  IF D = {} THEN <<>>
  ELSE LET i == CHOOSE j \in D : \A k \in D : j <= k
       IN  <<Files[i]>> \o Entries(D \ {i})

\* The wall-clock times datetime.now() may return.
Clocks ==
  { [year |-> 2026, month |-> 1, day |-> 5, hour |-> 9, minute |-> 3,
     second |-> 7],
    [year |-> 2026, month |-> 1, day |-> 5, hour |-> 9, minute |-> 3,
     second |-> 8] }

\* The output path before the first run: no file, or a file of an earlier day.
AbsentFile == [exists |-> FALSE, lines |-> <<>>]
StaleFile == [exists |-> TRUE, lines |-> << <<"s","t","a","l","e">> >>]

\* The samples handed to the statistics functions.
Samples(maxlen, maxval) == UNION {[1..n -> 0..maxval] : n \in 0..maxlen}

\* ------------------------------------------------------------------- state
VARIABLES
  dir_exists,   \* whether results_dir exists
  dir,          \* the entries of results_dir
  output_file,  \* the file at output_path
  HAS_SCIPY,    \* whether numpy and scipy were imported
  pc,           \* where main is
  glob_order,   \* the order in which glob yields the entries, as indices of dir
  idx,          \* the position of the loop of load_results in glob_order
  results,      \* the ResultSet being built
  exit_code,    \* <<>> until main returns, then <<its return value>>
  runs,         \* invocations of main so far
  call,         \* the last call of a statistics function
  ret           \* what it returned

vars == <<dir_exists, dir, output_file, HAS_SCIPY, pc, glob_order, idx,
          results, exit_code, runs, call, ret>>

NoCall == [fn |-> "none", a |-> <<>>, b |-> <<>>, a_after |-> <<>>]

\* The indices of the entries glob("*.json") yields.
Globbed(d) == {i \in 1..Len(d) : GlobMatches(d[i].name)}

\* The orders in which a set of indices can be enumerated.
Orders(S) ==
  {p \in [1..Cardinality(S) -> S] :
     \A i, j \in 1..Cardinality(S) : i # j => p[i] # p[j]}

\* A test of the ResultSet that never finds it empty.
IsEmptyNever(res) == FALSE

\* if not results
IsEmpty(res) == DOMAIN res = {}

InitProcess ==
  /\ pc = "start"
  /\ glob_order = <<>>
  /\ idx = 1
  /\ results = EmptyObj
  /\ exit_code = <<>>
  /\ runs = 1
  /\ call = NoCall
  /\ ret = EmptyObj

\* The script is run on a missing directory, on a curated directory of at
\* most MaxFiles entries, or on a directory holding one file that lacks some
\* of its optional fields.
Init ==
  /\ InitProcess
  /\ HAS_SCIPY \in BOOLEAN
  /\ output_file \in {AbsentFile, StaleFile}
  /\ \/ /\ dir_exists = FALSE
        /\ dir = <<>>
     \/ /\ dir_exists = TRUE
        /\ \E D \in SUBSET (1..Len(Files)) :
             /\ Cardinality(D) <= MaxFiles
             /\ dir = Entries(D)
     \/ /\ dir_exists = TRUE
        /\ \E i \in 1..Len(FieldFiles) :
             LET obj == FieldFiles[i].text.value
             IN  \E top \in SUBSET (DOMAIN obj), sub \in SUBSET SubFields(obj) :
                   dir = << File(FieldFiles[i].name,
                                 JsonText(Prune(obj, top, sub))) >>

\* ----------------------------------------------------------------- actions
\* main, up to the call of load_results: the directory test, then glob starts.
CheckDir ==
  /\ pc = "start"
  /\ IF ~dir_exists
     THEN /\ pc' = "exited"
          /\ exit_code' = <<1>>
          /\ UNCHANGED <<glob_order, idx, results>>
     ELSE /\ \E order \in Orders(Globbed(dir)) : glob_order' = order
          /\ idx' = 1
          /\ results' = EmptyObj
          /\ pc' = "loading"
          /\ UNCHANGED exit_code
  /\ UNCHANGED <<dir_exists, dir, output_file, HAS_SCIPY, runs, call, ret>>

\* One iteration of the loop of load_results.
LoadNext ==
  /\ pc = "loading"
  /\ idx <= Len(glob_order)
  /\ LET r == LoadFile(results, dir[glob_order[idx]])
     IN  /\ results' = r.results
         /\ pc' = IF r.raised THEN "raised" ELSE "loading"
  /\ idx' = idx + 1
  /\ UNCHANGED <<dir_exists, dir, output_file, HAS_SCIPY, glob_order,
                 exit_code, runs, call, ret>>

\* load_results returns and main tests the ResultSet.
CheckResults ==
  /\ pc = "loading"
  /\ idx > Len(glob_order)
  /\ IF IsEmpty(results)
     THEN /\ pc' = "exited"
          /\ exit_code' = <<1>>
     ELSE /\ pc' = "render"
          /\ UNCHANGED exit_code
  /\ UNCHANGED <<dir_exists, dir, output_file, HAS_SCIPY, glob_order, idx,
                 results, runs, call, ret>>

\* generate_report writes the report, and main returns 0.
GenerateReport ==
  /\ pc = "render"
  /\ \E clock \in Clocks :
       output_file' = [exists |-> TRUE, lines |-> ReportLines(results, clock)]
  /\ exit_code' = <<0>>
  /\ pc' = "done"
  /\ UNCHANGED <<dir_exists, dir, HAS_SCIPY, glob_order, idx, results, runs,
                 call, ret>>

\* The script is run again on the same directory and output path.
Reinvoke ==
  /\ pc \in {"exited", "raised", "done"}
  /\ runs < MaxRuns
  /\ runs' = runs + 1
  /\ pc' = "start"
  /\ glob_order' = <<>>
  /\ idx' = 1
  /\ results' = EmptyObj
  /\ exit_code' = <<>>
  /\ UNCHANGED <<dir_exists, dir, output_file, HAS_SCIPY, call, ret>>

Next == CheckDir \/ LoadNext \/ CheckResults \/ GenerateReport \/ Reinvoke

Spec == Init /\ [][Next]_vars

\* ------------------------------------------------- the statistics functions
\* The module is imported and one of its two statistics functions is called;
\* both are pure, so one call per behaviour reaches all they can do.
InitStats ==
  /\ HAS_SCIPY \in BOOLEAN
  /\ dir_exists = FALSE
  /\ dir = <<>>
  /\ output_file = AbsentFile
  /\ pc = "imported"
  /\ glob_order = <<>>
  /\ idx = 1
  /\ results = EmptyObj
  /\ exit_code = <<>>
  /\ runs = 1
  /\ call = NoCall
  /\ ret = EmptyObj

CallComputePercentiles ==
  /\ pc = "imported"
  /\ \E data \in Samples(MaxLen, MaxVal) :
       /\ call' = [fn |-> "compute_percentiles", a |-> data, b |-> <<>>,
                   a_after |-> DataAfterSorted(data)]
       /\ ret' = compute_percentiles(data, HAS_SCIPY)
  /\ pc' = "called"
  /\ UNCHANGED <<dir_exists, dir, output_file, HAS_SCIPY, glob_order, idx,
                 results, exit_code, runs>>

CallMannWhitney ==
  /\ pc = "imported"
  /\ \E a \in Samples(MaxLenMW, MaxValMW), b \in Samples(MaxLenMW, MaxValMW) :
       /\ call' = [fn |-> "mann_whitney_test", a |-> a, b |-> b, a_after |-> a]
       /\ ret' \in mann_whitney_test(a, b, HAS_SCIPY)
  /\ pc' = "called"
  /\ UNCHANGED <<dir_exists, dir, output_file, HAS_SCIPY, glob_order, idx,
                 results, exit_code, runs>>

NextStats == CallComputePercentiles \/ CallMannWhitney

SpecStats == InitStats /\ [][NextStats]_vars

\* ================================================================== claims
\* What the claims say, stated on the directory and the enumeration order
\* rather than on the loop that consumes them.

HasPrefix(name, prefix) ==
  /\ Len(name) >= Len(prefix)
  /\ \A i \in 1..Len(prefix) : name[i] = prefix[i]

HasSuffix(name, suffix) ==
  /\ Len(name) >= Len(suffix)
  /\ \A i \in 1..Len(suffix) : name[Len(name) - Len(suffix) + i] = suffix[i]

PrefixTable ==
  << << <<"h","t","t","p","_">>, "http" >>, << <<"m","i","c","r","o","b","e","n","c","h","_">>, "microbench" >>,
     << <<"c","o","l","d","s","t","a","r","t","_">>, "coldstart" >>, << <<"m","e","m","o","r","y","_">>, "memory" >> >>

\* The category the specification gives a file name.
SpecCategory(name) ==
  IF name = <<"v","e","r","s","i","o","n","s",".","j","s","o","n">> THEN "versions"
  ELSE IF name = <<"s","y","s","t","e","m","_","i","n","f","o",".","j","s","o","n">> THEN "system"
  ELSE IF \E i \in 1..Len(PrefixTable) : HasPrefix(name, PrefixTable[i][1])
  THEN PrefixTable[CHOOSE i \in 1..Len(PrefixTable) :
                     HasPrefix(name, PrefixTable[i][1])][2]
  ELSE "ignored"

\* The .json entries of the directory that the specification recognizes.
Recognized ==
  {i \in 1..Len(dir) :
     HasSuffix(dir[i].name, <<".","j","s","o","n">>) /\ SpecCategory(dir[i].name) # "ignored"}

\* The recognized entries of a category.
OfCategory(c) == {i \in Recognized : SpecCategory(dir[i].name) = c}

\* The key the specification derives from a payload.
SpecKey(c, obj) ==
  LET runtime == IF "runtime" \in DOMAIN obj THEN obj["runtime"]
                 ELSE <<"u","n","k","n","o","w","n">>
      endpoint == IF "endpoint" \in DOMAIN obj THEN obj["endpoint"] ELSE <<>>
  IN  IF c = "http"
      THEN runtime \o <<"_">> \o
           [i \in 1..Len(endpoint) |->
              IF endpoint[i] = "/" THEN "_" ELSE endpoint[i]]
      ELSE runtime

\* load_results has returned in this invocation.
Loaded ==
  \/ pc \in {"render", "done"}
  \/ pc = "loading" /\ idx > Len(glob_order)
  \/ pc = "exited" /\ dir_exists

\* The output file is as it was before the first run.
Untouched == output_file \in {AbsentFile, StaleFile}

\* The output file holds the report of the ResultSet of this invocation.
ReportWritten ==
  /\ output_file.exists
  /\ \E clock \in Clocks : output_file.lines = ReportLines(results, clock)

\* C1: main returns 1, without calling generate_report and leaving the output
\* file as it was, when the results directory does not exist or holds no
\* recognized result file; every other run that reaches the end returns 0
\* after the report has been written.
C1_ExitCode ==
  LET nothing == ~dir_exists \/ Recognized = {}
  IN  /\ nothing => /\ Untouched
                    /\ pc \notin {"render", "done", "raised"}
                    /\ exit_code \in {<<>>, <<1>>}
      /\ pc = "exited" => exit_code = <<1>> /\ nothing
      /\ pc = "done" => exit_code = <<0>> /\ ReportWritten
      /\ exit_code = <<0>> => pc = "done"
      /\ exit_code = <<1>> => pc = "exited"
      /\ exit_code = <<>> => pc \in {"start", "loading", "render", "raised"}

\* C1 witness: a second run on a directory that exists and holds only
\* entries the loader does not recognize has returned 1, the stale output
\* file still in place.
C1_Witness ==
  /\ pc = "exited"
  /\ exit_code = <<1>>
  /\ dir_exists
  /\ Len(dir) = 2
  /\ Len(glob_order) = 1
  /\ runs = 2
  /\ output_file = StaleFile

\* C2: when a recognized file of the directory is not a JSON document, no
\* run returns and the output file is never written, wherever the file comes
\* in the enumeration.
C2_MalformedAborts ==
  (dir_exists /\ \E i \in Recognized : ~dir[i].text.ok) =>
    /\ Untouched
    /\ exit_code = <<>>
    /\ pc \in {"start", "loading", "raised"}
    /\ pc = "loading" => idx <= Len(glob_order)

\* C2 witness: the malformed file came second, after a file that was loaded,
\* and the existing output file is as it was.
C2_Witness ==
  /\ pc = "raised"
  /\ idx = 3
  /\ ~dir[glob_order[2]].text.ok
  /\ glob_order[1] \in Recognized
  /\ DOMAIN results = {"http", "system"}
  /\ output_file = StaleFile

\* C5: once load_results has returned, a category is in the ResultSet
\* exactly if the directory holds a .json file of its class; versions and
\* system hold the parsed file; a keyed category holds exactly the keys
\* derived from its files, each with the payload of one of them; and
\* load_results raises only on a recognized file, so that any other file is
\* never parsed.
C5_Classification ==
  /\ Loaded =>
       /\ DOMAIN results = {SpecCategory(dir[i].name) : i \in Recognized}
       /\ \A c \in DOMAIN results \ KeyedCategories :
            \E i \in OfCategory(c) : results[c] = dir[i].text.value
       /\ \A c \in DOMAIN results \cap KeyedCategories :
            /\ {results[c][j][1] : j \in 1..Len(results[c])} =
                 {SpecKey(c, dir[i].text.value) : i \in OfCategory(c)}
            /\ \A j \in 1..Len(results[c]) :
                 \E i \in OfCategory(c) :
                   /\ results[c][j][1] = SpecKey(c, dir[i].text.value)
                   /\ results[c][j][2] = dir[i].text.value
  /\ pc = "raised" => \E i \in Recognized : ~dir[i].text.ok

\* C5 witness: a directory of an http file without runtime and endpoint has
\* been loaded into the category http under the key unknown_.
C5_Witness ==
  /\ Loaded
  /\ DOMAIN results = {"http"}
  /\ Len(dir) = 1
  /\ DOMAIN dir[1].text.value = {"metrics"}
  /\ Keys(results["http"]) = << <<"u","n","k","n","o","w","n","_">> >>

\* The last position of the enumeration holding a file of category c whose
\* payload derives key k.
LastWith(c, k) ==
  CHOOSE j \in 1..Len(glob_order) :
    /\ glob_order[j] \in OfCategory(c)
    /\ SpecKey(c, dir[glob_order[j]].text.value) = k
    /\ \A m \in (j + 1)..Len(glob_order) :
         ~(/\ glob_order[m] \in OfCategory(c)
           /\ SpecKey(c, dir[glob_order[m]].text.value) = k)

\* The lines of the section under a heading, up to the next heading.
SectionLines(lines, heading) ==
  IF \E i \in 1..Len(lines) : lines[i] = heading
  THEN LET h == CHOOSE i \in 1..Len(lines) : lines[i] = heading
           stop == CHOOSE e \in (h + 1)..Len(lines) :
                     /\ HasPrefix(lines[e], <<"#","#"," ">>)
                     /\ \A m \in (h + 1)..(e - 1) : ~HasPrefix(lines[m], <<"#","#"," ">>)
       IN  SubSeq(lines, h + 1, stop - 1)
  ELSE <<>>

\* The rows of the table of a section: its lines that start a cell, less the
\* header and the rule.
TableRows(lines, heading) ==
  LET body == SectionLines(lines, heading)
  IN  Cardinality({i \in 1..Len(body) : HasPrefix(body[i], <<"|">>)}) - 2

SectionHeading(c) ==
  CASE c = "system" -> <<"#","#"," ","S","y","s","t","e","m"," ","I","n","f","o","r","m","a","t","i","o","n">>
    [] c = "http" -> <<"#","#"," ","H","T","T","P"," ","B","e","n","c","h","m","a","r","k"," ","R","e","s","u","l","t","s">>
    [] c = "microbench" -> <<"#","#"," ","M","i","c","r","o","b","e","n","c","h","m","a","r","k"," ","R","e","s","u","l","t","s">>
    [] c = "coldstart" -> <<"#","#"," ","C","o","l","d"," ","S","t","a","r","t"," ","R","e","s","u","l","t","s">>
    [] c = "memory" -> <<"#","#"," ","M","e","m","o","r","y"," ","U","s","a","g","e">>

\* C10: once load_results has returned, a keyed category holds each derived
\* key once, with the payload of the file enumerated last among those that
\* derive it; and the HTTP, Cold Start and Memory tables of the report have
\* one row per distinct key.
C10_LastWins ==
  /\ Loaded =>
       \A c \in DOMAIN results \cap KeyedCategories :
         /\ \A i, j \in 1..Len(results[c]) :
              results[c][i][1] = results[c][j][1] => i = j
         /\ \A j \in 1..Len(results[c]) :
              results[c][j][2] =
                dir[glob_order[LastWith(c, results[c][j][1])]].text.value
  /\ pc = "done" =>
       \A c \in DOMAIN results \cap {"http", "coldstart", "memory"} :
         TableRows(output_file.lines, SectionHeading(c)) =
           Cardinality({SpecKey(c, dir[i].text.value) : i \in OfCategory(c)})

\* C10 witness: two http files deriving the same key go__x were loaded, and
\* the report holds the one HTTP row of the one enumerated last.
C10_Witness ==
  /\ pc = "done"
  /\ Len(glob_order) = 2
  /\ Cardinality(OfCategory("http")) = 2
  /\ Len(results["http"]) = 1
  /\ results["http"][1][1] = <<"g","o","_","_","x">>
  /\ TableRows(output_file.lines, <<"#","#"," ","H","T","T","P"," ","B","e","n","c","h","m","a","r","k"," ","R","e","s","u","l","t","s">>) = 1
  /\ dir[glob_order[1]].text.value = HttpGoUnderscoreX
  /\ dir[glob_order[2]].text.value = HttpGoX
  /\ results["http"][1][2] = HttpGoX
  /\ \E i \in 1..Len(output_file.lines) :
       output_file.lines[i] = <<"|"," ","g","o"," ","|"," ","/","x"," ","|"," ","1","2",",","3","4","5"," ","|"," ","2",".","0","0","0","0","s"," ","|">>

IsHeading(line) == HasPrefix(line, <<"#","#"," ">>)

\* The section headings of a report, in the order they appear.
Headings(lines) == SelectSeq(lines, IsHeading)

SectionOrder == <<"system", "http", "microbench", "coldstart", "memory">>

\* The headings of the sections of some categories, in the fixed order, then
\* the Methodology heading.
ExpectedHeadings(categories) ==
  Concat([i \in 1..Len(SectionOrder) |->
            IF SectionOrder[i] \in categories
            THEN <<SectionHeading(SectionOrder[i])>> ELSE <<>>]) \o
  << <<"#","#"," ","M","e","t","h","o","d","o","l","o","g","y">> >>

\* The report opens with the title and the timestamp and closes with the
\* Methodology section.
Framed(lines) ==
  /\ Len(lines) >= 8
  /\ lines[1] = <<"#"," ","z","i","g","t","t","p"," ","B","e","n","c","h","m","a","r","k"," ","R","e","s","u","l","t","s">>
  /\ lines[2] = <<>>
  /\ HasPrefix(lines[3], <<"*","*","G","e","n","e","r","a","t","e","d",":","*","*"," ">>)
  /\ lines[4] = <<>>
  /\ \A i \in 1..4 : ~IsHeading(lines[i])
  /\ SubSeq(lines, Len(lines) - 3, Len(lines)) =
       << <<"#","#"," ","M","e","t","h","o","d","o","l","o","g","y">>,
          <<>>,
          <<"S","e","e"," ","[","m","e","t","h","o","d","o","l","o","g","y",".","m","d","]","(",".",".","/","m","e","t","h","o","d","o","l","o","g","y",".","m","d",")"," ","f","o","r"," ","d","e","t","a","i","l","e","d"," ","t","e","s","t"," ","m","e","t","h","o","d","o","l","o","g","y",".">>,
          <<>> >>

\* C3, as amended: the report holds, between the title and timestamp and the
\* closing Methodology section, exactly the sections of the categories that
\* are present in the ResultSet, in the fixed order; a keyed category that is
\* present is never empty, and the system section is rendered for a system
\* object without fields too.
C3_SectionsOfPresent ==
  pc = "done" =>
    /\ Framed(output_file.lines)
    /\ Headings(output_file.lines) = ExpectedHeadings(DOMAIN results)
    /\ \A c \in DOMAIN results \cap KeyedCategories : Len(results[c]) > 0

\* C3 as stated: the sections are exactly those of the categories that are
\* not empty.
C3_SectionsOfNonEmpty ==
  pc = "done" =>
    /\ Framed(output_file.lines)
    /\ Headings(output_file.lines) =
         ExpectedHeadings({c \in DOMAIN results : DOMAIN results[c] # {}})

\* C3 witness: a memory file and a system file, the memory file enumerated
\* first, gave a report with the System Information section before the
\* Memory Usage section.
C3_Witness ==
  /\ pc = "done"
  /\ Len(glob_order) = 2
  /\ SpecCategory(dir[glob_order[1]].name) = "memory"
  /\ DOMAIN results = {"memory", "system"}
  /\ Headings(output_file.lines) =
       << <<"#","#"," ","S","y","s","t","e","m"," ","I","n","f","o","r","m","a","t","i","o","n">>, <<"#","#"," ","M","e","m","o","r","y"," ","U","s","a","g","e">>, <<"#","#"," ","M","e","t","h","o","d","o","l","o","g","y">> >>

\* Two reports that differ at most in the timestamp line.
SameExceptTimestamp(l1, l2) ==
  /\ Len(l1) = Len(l2)
  /\ \A i \in 1..Len(l1) : i # 3 => l1[i] = l2[i]

\* C4: a run that writes its report over the report of an earlier run on the
\* same directory writes the same text, the timestamp line apart, whatever
\* the two enumeration orders were.
C4_Idempotent ==
  [][(/\ pc = "render"
      /\ pc' = "done"
      /\ runs > 1
      /\ output_file.exists
      /\ output_file.lines[1] = <<"#"," ","z","i","g","t","t","p"," ","B","e","n","c","h","m","a","r","k"," ","R","e","s","u","l","t","s">>)
     => SameExceptTimestamp(output_file.lines, output_file'.lines)]_vars

\* A field of an object, or the default the specification documents for it.
Field(obj, key, default) == IF key \in DOMAIN obj THEN obj[key] ELSE default

\* The metrics of a payload with every documented field, a missing one as 0.
MetricsWithDefaults(obj, fields) ==
  LET metrics == Field(obj, "metrics", EmptyObj)
  IN  [k \in fields |-> Field(metrics, k, 0)]

\* The payload of a keyed category with no field missing.
WithDefaults(c, obj) ==
  CASE c = "http" ->
         [runtime |-> Field(obj, "runtime", <<"u","n","k","n","o","w","n">>),
          endpoint |-> Field(obj, "endpoint", <<"u","n","k","n","o","w","n">>),
          metrics |-> MetricsWithDefaults(
                        obj, {"requests_per_second", "latency_p99_secs"})]
    [] c = "coldstart" ->
         [runtime |-> Field(obj, "runtime", <<"u","n","k","n","o","w","n">>),
          metrics |-> MetricsWithDefaults(
                        obj, {"mean_us", "median_us", "p95_us", "p99_us"})]
    [] c = "memory" ->
         [runtime |-> Field(obj, "runtime", <<"u","n","k","n","o","w","n">>),
          metrics |-> MetricsWithDefaults(
                        obj, {"baseline_kb", "peak_kb", "avg_kb"})]
    [] c = "microbench" ->
         LET benchmarks == Field(obj, "benchmarks", EmptyObj)
         IN  [runtime |-> Field(obj, "runtime", <<"u","n","k","n","o","w","n">>),
              benchmarks |->
                [b \in DOMAIN benchmarks |->
                   [ops_per_sec |-> Field(benchmarks[b], "ops_per_sec", 0)]]]

\* The ResultSet with the payloads of its keyed categories completed.
ResultsWithDefaults ==
  [c \in DOMAIN results |->
     IF c \in KeyedCategories
     THEN [j \in 1..Len(results[c]) |->
             << results[c][j][1], WithDefaults(c, results[c][j][2]) >>]
     ELSE results[c]]

\* The bullet list of the system section with the documented defaults.
SystemBullets(sys) ==
  << <<>>,
     <<"-"," ","*","*","O","S",":","*","*"," ">> \o Field(sys, "os", <<"u","n","k","n","o","w","n">>) \o <<" ">> \o
       Field(sys, "os_version", <<>>),
     <<"-"," ","*","*","C","P","U",":","*","*"," ">> \o Field(sys, "cpu_model", <<"u","n","k","n","o","w","n">>),
     <<"-"," ","*","*","C","o","r","e","s",":","*","*"," ">> \o
       (IF "cpu_cores" \in DOMAIN sys THEN Str(sys["cpu_cores"])
        ELSE <<"u","n","k","n","o","w","n">>),
     <<"-"," ","*","*","R","A","M",":","*","*"," ">> \o
       (IF "ram_gb" \in DOMAIN sys THEN Str(sys["ram_gb"]) ELSE <<"u","n","k","n","o","w","n">>) \o
       <<" ","G","B">>,
     <<>> >>

\* C6: a well-formed file that lacks optional fields never makes a run
\* raise; each key is derived with "unknown" for a missing runtime and the
\* empty string for a missing endpoint; and the report is the report of the
\* same payloads with every missing field set to its documented default
\* ("unknown" for names, 0 for metrics), the system bullets showing
\* "unknown", or nothing for the OS version, and no runtime list.
C6_MissingFields ==
  /\ pc = "raised" => \E i \in Recognized : ~dir[i].text.ok
  /\ Loaded =>
       \A c \in DOMAIN results \cap KeyedCategories :
         \A j \in 1..Len(results[c]) :
           results[c][j][1] = SpecKey(c, results[c][j][2])
  /\ pc = "done" =>
       /\ \E clock \in Clocks :
            output_file.lines = ReportLines(ResultsWithDefaults, clock)
       /\ "system" \in DOMAIN results =>
            LET body == SectionLines(output_file.lines,
                                     <<"#","#"," ","S","y","s","t","e","m"," ","I","n","f","o","r","m","a","t","i","o","n">>)
                sys == results["system"]
            IN  /\ SubSeq(body, 1, 6) = SystemBullets(sys)
                /\ "runtimes" \notin DOMAIN sys => Len(body) = 6

\* C6 witness: a cold start file with neither runtime nor p95_us nor p99_us
\* was rendered as the row of runtime unknown with 0us in both columns.
C6_Witness ==
  /\ pc = "done"
  /\ Len(dir) = 1
  /\ DOMAIN dir[1].text.value = {"metrics"}
  /\ DOMAIN dir[1].text.value["metrics"] = {"mean_us", "median_us"}
  /\ \E i \in 1..Len(output_file.lines) :
       output_file.lines[i] = <<"|"," ","u","n","k","n","o","w","n"," ","|"," ","1","0","0","u","s"," ","|"," ","9","0","u","s"," ","|"," ","0","u","s"," ","|"," ","0","u","s"," ","|">>

\* The positions of the cell separators of a table line.
Pipes(line) == {i \in 1..Len(line) : line[i] = "|"}

\* The cells of a table line: the text between two consecutive separators.
CellsOf(line) ==
  LET ps == Pipes(line)
      nth(k) == CHOOSE q \in ps : Cardinality({r \in ps : r < q}) = k - 1
  IN  [k \in 1..(Cardinality(ps) - 1) |->
         SubSeq(line, nth(k) + 1, nth(k + 1) - 1)]

IsTableLine(line) == HasPrefix(line, <<"|">>)

\* The benchmark names reported by the runtimes of the microbench category.
SpecBenchNames ==
  UNION {DOMAIN Field(results["microbench"][j][2], "benchmarks", EmptyObj) :
           j \in 1..Len(results["microbench"])}

\* C9: the header of the microbenchmark table holds the Benchmark cell and
\* then one cell per runtime of the category; the rows are labelled by the
\* benchmark names of all runtimes, each once, ascending; a cell holds an
\* ops/s value exactly if the runtime of its column reported the benchmark
\* of its row, and - otherwise; every row has as many cells as the header.
C9_MicrobenchTable ==
  (pc = "done" /\ "microbench" \in DOMAIN results /\ SpecBenchNames # {}) =>
    LET mb == results["microbench"]
        table == SelectSeq(SectionLines(output_file.lines,
                                        <<"#","#"," ","M","i","c","r","o","b","e","n","c","h","m","a","r","k"," ","R","e","s","u","l","t","s">>),
                           IsTableLine)
        header == CellsOf(table[1])
        row(r) == CellsOf(table[r + 2])
        nrows == Len(table) - 2
    IN  /\ nrows = Cardinality(SpecBenchNames)
        /\ Len(header) = 1 + Len(mb)
        /\ header[1] = <<" ","B","e","n","c","h","m","a","r","k"," ">>
        /\ {header[k] : k \in 2..Len(header)} =
             {<<" ">> \o mb[j][1] \o <<" ">> : j \in 1..Len(mb)}
        /\ \A r \in 1..nrows : Len(row(r)) = Len(header)
        /\ {row(r)[1] : r \in 1..nrows} =
             {<<" ">> \o b \o <<" ">> : b \in SpecBenchNames}
        /\ \A r \in 1..(nrows - 1) : StrLess(row(r)[1], row(r + 1)[1])
        /\ \A r \in 1..nrows : \A k \in 2..Len(header) :
             \E j \in 1..Len(mb) : \E b \in SpecBenchNames :
               /\ header[k] = <<" ">> \o mb[j][1] \o <<" ">>
               /\ row(r)[1] = <<" ">> \o b \o <<" ">>
               /\ IF b \in DOMAIN Field(mb[j][2], "benchmarks", EmptyObj)
                  THEN HasSuffix(row(r)[k], <<" ","o","p","s","/","s"," ">>)
                  ELSE row(r)[k] = <<" ","-"," ">>

\* The elements of a sample below, and not above, a value.
Below(data, v) == Cardinality({i \in 1..Len(data) : data[i] < v})
NotAbove(data, v) == Cardinality({i \in 1..Len(data) : data[i] <= v})

\* C7: mann_whitney_test returns exactly {available: false} when the
\* statistics library is missing or a sample has fewer than 3 observations,
\* whatever the values; otherwise it returns available = true with the
\* statistic, the p-value and the flag p_value < 0.05.
C7_MannWhitney ==
  call.fn = "mann_whitney_test" =>
    IF ~HAS_SCIPY \/ Len(call.a) < 3 \/ Len(call.b) < 3
    THEN ret = [available |-> FALSE]
    ELSE /\ DOMAIN ret =
              {"available", "statistic", "p_value", "significant_at_005"}
         /\ ret.available = TRUE
         /\ ret.significant_at_005 = (ret.p_value.num * 20 < ret.p_value.den)

\* C7 witness: with the library imported, a sample of 2 against a sample of
\* 3 was answered {available: false}.
C7_Witness ==
  /\ call.fn = "mann_whitney_test"
  /\ HAS_SCIPY
  /\ Len(call.a) = 2
  /\ Len(call.b) = 3
  /\ ret = [available |-> FALSE]

\* C8: compute_percentiles returns an empty result for an empty sample; in
\* fallback mode a sample of n > 0 observations gives exactly mean, median,
\* min, max and n, the median being the element at index n // 2 of the
\* ascending order (the upper middle one for even n), min and max the least
\* and the greatest element; the caller's sequence keeps its order.
C8_Fallback ==
  call.fn = "compute_percentiles" =>
    /\ call.a_after = call.a
    /\ call.a = <<>> => ret = EmptyObj
    /\ (~HAS_SCIPY /\ call.a # <<>>) =>
         LET n == Len(call.a)
         IN  /\ DOMAIN ret = {"mean", "median", "min", "max", "n"}
             /\ ret.n = n
             /\ ret.mean.num * n = Sum(call.a) * ret.mean.den
             /\ \E i \in 1..n : call.a[i] = ret.median
             /\ Below(call.a, ret.median) <= n \div 2
             /\ NotAbove(call.a, ret.median) > n \div 2
             /\ \E i \in 1..n : call.a[i] = ret.min
             /\ \A i \in 1..n : ret.min <= call.a[i]
             /\ \E i \in 1..n : call.a[i] = ret.max
             /\ \A i \in 1..n : call.a[i] <= ret.max

\* C8 witness: in fallback mode the sample 4, 1, 3, 2 got median 3, the
\* element at index 2 of 1, 2, 3, 4.
C8_Witness ==
  /\ call.fn = "compute_percentiles"
  /\ ~HAS_SCIPY
  /\ call.a = <<4, 1, 3, 2>>
  /\ ret.median = 3
  /\ ret.min = 1
  /\ ret.max = 4

====
